---- MODULE Spec2Model ----
(***************************************************************************)
(* A model of the folding engine of fs-test: the relation layer (sparse    *)
(* matrices, R1CS, CCS), the Pedersen vector commitment, the Poseidon      *)
(* transcript and the NIFS protocol.                                       *)
(*                                                                         *)
(* Scalars are the elements 0..P-1 of a prime field.  The curve group has  *)
(* prime order P, so a group element is written as its discrete logarithm  *)
(* 0..P-1 with respect to a fixed base point; 0 is the identity.  Vectors  *)
(* are sequences; the source's 0-based indices are kept in the data and    *)
(* shifted by one where a sequence is read.                                *)
(***************************************************************************)
EXTENDS Integers, Sequences, FiniteSets, TLC

\* Order of C::ScalarField (and of the group C): a small prime in place of the Pallas scalar field.
P == 7

F == 0 .. (P - 1)

\* ---------------------------------------------------------------- field
FAdd(a, b) == (a + b) % P

FSub(a, b) == (a - b + P) % P

FMul(a, b) == (a * b) % P

FNeg(a) == (P - a) % P

\* F::from(u64)
FFrom(n) == n % P

Min(a, b) == IF a <= b THEN a ELSE b

\* The value of x, computed once.
Eval(x) == CHOOSE y \in {x} : TRUE

\* ------------------------------------------------------------- src/src/ccs/r1cs.rs
\* a.iter().zip(b).map(|(v1, v2)| *v1 * v2): the result is as long as the shorter input.
hadamard(a, b) == [i \in 1 .. Min(Len(a), Len(b)) |-> FMul(a[i], b[i])]

scalar_mul_vec(c, v) == [i \in 1 .. Len(v) |-> FMul(c, v[i])]

vec_add_vec(v1, v2) == [i \in 1 .. Min(Len(v1), Len(v2)) |-> FAdd(v1[i], v2[i])]

vec_sub_vec(v1, v2) == [i \in 1 .. Min(Len(v1), Len(v2)) |-> FSub(v1[i], v2[i])]

Zeros(n) == [i \in 1 .. n |-> 0]

Ones(n) == [i \in 1 .. n |-> 1]

\* to_f_vec / to_f_matrix: every usize entry goes through F::from.
to_f_vec(v) == [i \in 1 .. Len(v) |-> FFrom(v[i])]

to_f_matrix(m) == [i \in 1 .. Len(m) |-> to_f_vec(m[i])]

\* dense_matrix_to_sparse: the nonzero entries (row, col, value), in row-major order.
RECURSIVE DenseVals(_, _, _)
DenseVals(m, k, acc) ==
    LET cols == Len(m[1])
        i == k \div cols
        j == k % cols
        v == m[i + 1][j + 1]
    IN  IF k >= Len(m) * cols THEN acc
        ELSE DenseVals(m, k + 1, IF v # 0 THEN Append(acc, <<i, j, v>>) ELSE acc)

dense_matrix_to_sparse(m) ==
    [n_rows |-> Len(m), n_cols |-> Len(m[1]), vals |-> DenseVals(m, 0, <<>>)]

\* vec_mul_matrix: v[i] += val * z[j] over the stored entries.
RECURSIVE VecMulAcc(_, _, _)
VecMulAcc(v, vals, z) ==
    IF vals = <<>> THEN v
    ELSE LET e == Head(vals)
         IN  VecMulAcc([v EXCEPT ![e[1] + 1] = FAdd(@, FMul(e[3], z[e[2] + 1]))],
                       Tail(vals), z)

vec_mul_matrix(z, m) == VecMulAcc(Zeros(m.n_rows), m.vals, z)

\* R1CS::split_z: (w, x) = (z[l+1..], z[1..l+1])
split_z(r1cs, z) ==
    [w |-> SubSeq(z, r1cs.l + 2, Len(z)), x |-> SubSeq(z, 2, r1cs.l + 1)]

\* tests::get_test_r1cs: x^3 + x + 5 = y over z = (1, x, y, z1, z2, z3)
get_test_r1cs ==
    [l |-> 1,
     a |-> dense_matrix_to_sparse(to_f_matrix(<<
              <<0, 1, 0, 0, 0, 0>>,
              <<0, 0, 0, 1, 0, 0>>,
              <<0, 1, 0, 0, 1, 0>>,
              <<5, 0, 0, 0, 0, 1>> >>)),
     b |-> dense_matrix_to_sparse(to_f_matrix(<<
              <<0, 1, 0, 0, 0, 0>>,
              <<0, 1, 0, 0, 0, 0>>,
              <<1, 0, 0, 0, 0, 0>>,
              <<1, 0, 0, 0, 0, 0>> >>)),
     c |-> dense_matrix_to_sparse(to_f_matrix(<<
              <<0, 0, 0, 1, 0, 0>>,
              <<0, 0, 0, 0, 1, 0>>,
              <<0, 0, 0, 0, 0, 1>>,
              <<0, 0, 1, 0, 0, 0>> >>))]

\* tests::get_test_z
get_test_z(input) ==
    to_f_vec(<<1,
               input,
               input * input * input + input + 5,
               input * input,
               input * input * input,
               input * input * input + input>>)

\* A second, smaller relation used as an input: (x + 2) * x = y over z = (1, x, y).
SmallR1CS ==
    [l |-> 1,
     a |-> dense_matrix_to_sparse(to_f_matrix(<< <<2, 1, 0>> >>)),
     b |-> dense_matrix_to_sparse(to_f_matrix(<< <<0, 1, 0>> >>)),
     c |-> dense_matrix_to_sparse(to_f_matrix(<< <<0, 0, 1>> >>))]

\* A third input relation with two rows, x * x = y and (y + 1) * (x + 3) = v, over
\* z = (1, x, y, v).
TwoRowR1CS ==
    [l |-> 1,
     a |-> dense_matrix_to_sparse(to_f_matrix(<< <<0, 1, 0, 0>>, <<1, 0, 1, 0>> >>)),
     b |-> dense_matrix_to_sparse(to_f_matrix(<< <<0, 1, 0, 0>>, <<3, 1, 0, 0>> >>)),
     c |-> dense_matrix_to_sparse(to_f_matrix(<< <<0, 0, 1, 0>>, <<0, 0, 0, 1>> >>))]

R1CSInputs == <<get_test_r1cs, SmallR1CS, TwoRowR1CS>>

\* The satisfying assignment of relation k for the input x, as get_test_z gives it
\* for the test relation.
FreshZ(k, input) ==
    IF k = 1 THEN get_test_z(input)
    ELSE IF k = 2 THEN to_f_vec(<<1, input, (input + 2) * input>>)
    ELSE to_f_vec(<<1, input, input * input, (input * input + 1) * (input + 3)>>)

\* ------------------------------------------------------------- src/src/ccs/mod.rs
\* ark_std::log2: the ceiling of the base-2 logarithm (0 for 0 and 1).
RECURSIVE Log2Up(_, _)
Log2Up(x, k) == IF 2 ^ k >= x THEN k ELSE Log2Up(x, k + 1)

log2(x) == Log2Up(x, 0)

\* CCS::from_r1cs with the second coefficient taken as +1 instead of -1.
from_r1cs_plus(r1cs) ==
    [m |-> r1cs.a.n_rows, n |-> r1cs.a.n_cols, l |-> r1cs.l,
     t |-> 3, q |-> 2, d |-> 2,
     s |-> log2(r1cs.a.n_rows), s_prime |-> log2(r1cs.a.n_cols),
     s_vec |-> << <<0, 1>>, <<2>> >>,
     v |-> <<1, 1>>,
     m_vec |-> <<r1cs.a, r1cs.b, r1cs.c>>]

from_r1cs(r1cs) ==
    [m |-> r1cs.a.n_rows, n |-> r1cs.a.n_cols, l |-> r1cs.l,
     t |-> 3, q |-> 2, d |-> 2,
     s |-> log2(r1cs.a.n_rows), s_prime |-> log2(r1cs.a.n_cols),
     s_vec |-> << <<0, 1>>, <<2>> >>,
     v |-> <<1, FNeg(1)>>,
     m_vec |-> <<r1cs.a, r1cs.b, r1cs.c>>]

\* s_z_vec.iter().fold(hadamard_vec, |acc, x| hadamard(&acc, x)) over the multiset s.
RECURSIVE HadamardFold(_, _, _, _)
HadamardFold(acc, s, ccs, z) ==
    IF s = <<>> THEN acc
    ELSE HadamardFold(hadamard(acc, vec_mul_matrix(z, ccs.m_vec[Head(s) + 1])),
                      Tail(s), ccs, z)

\* The loop for q_i in 0..self.q of is_satisfied, accumulating r.
RECURSIVE SatAcc(_, _, _, _)
SatAcc(ccs, z, q_i, r) ==
    IF q_i >= ccs.q THEN r
    ELSE LET res == HadamardFold(Ones(ccs.m), ccs.s_vec[q_i + 1], ccs, z)
             c_s == scalar_mul_vec(ccs.v[q_i + 1], res)
         IN  SatAcc(ccs, z, q_i + 1, vec_add_vec(r, c_s))

\* CCS::is_satisfied: "Ok", or "NotSatisfied" at the first nonzero entry of r.
\* CCS::is_satisfied looking at the first row of the result only.
is_satisfied_first(ccs, z) ==
    LET r == SatAcc(ccs, z, 0, Zeros(ccs.m))
    IN  IF r[1] # 0 THEN "NotSatisfied" ELSE "Ok"

is_satisfied(ccs, z) ==
    LET r == SatAcc(ccs, z, 0, Zeros(ccs.m))
    IN  IF \E i \in 1 .. Len(r) : r[i] # 0 THEN "NotSatisfied" ELSE "Ok"

\* ------------------------------------------------------------- the curve group
\* The group C: the curve y^2 = x^3 + 2x + 7 over the field of 11 elements, which has
\* prime order P.  AffineXY[k] holds the affine coordinates of k times the base point.
AffineXY == << <<6, 2>>, <<10, 9>>, <<7, 10>>, <<7, 1>>, <<10, 2>>, <<6, 9>> >>

GIdentity == 0

GAdd(a, b) == (a + b) % P

\* p.mul(s)
GMul(p, s) == (p * s) % P

\* C::msm(bases, scalars): the sum of bases[i] * scalars[i]
RECURSIVE MsmAcc(_, _, _, _)
MsmAcc(bases, scalars, i, acc) ==
    IF i > Len(scalars) THEN acc
    ELSE MsmAcc(bases, scalars, i + 1, GAdd(acc, GMul(bases[i], scalars[i])))

msm(bases, scalars) == MsmAcc(bases, scalars, 1, GIdentity)

\* ------------------------------------------------------------- the sponge
\* PoseidonSponge as the transcript uses it: a duplex sponge of RATE + CAPACITY
\* field elements.  The permutation is a small bijection of the same shape as
\* Poseidon's full rounds (add round constants, power S-box with alpha = 5, linear
\* mix).
RATE == 2

CAPACITY == 1

FULL_ROUNDS == 8

\* poseidon_test_config, one parameter set per index.
PoseidonConfigs ==
    << [ark |-> <<1, 2, 3>>], [ark |-> <<4, 0, 2>>], [ark |-> <<0, 3, 1>>] >>

SBox(x) == FMul(x, FMul(FMul(x, x), FMul(x, x)))

Mix(st) ==
    << FAdd(FMul(2, st[1]), FAdd(st[2], st[3])),
       FAdd(st[1], FAdd(FMul(2, st[2]), st[3])),
       FAdd(st[1], FAdd(st[2], FMul(2, st[3]))) >>

Round(st, ark) == Eval(Mix(Eval([i \in 1 .. 3 |-> SBox(FAdd(st[i], ark[i]))])))

RECURSIVE Rounds(_, _, _)
Rounds(st, ark, n) == IF n = 0 THEN st ELSE Rounds(Round(st, ark), ark, n - 1)

permute(sp) == [sp EXCEPT !.state = Rounds(sp.state, PoseidonConfigs[sp.config].ark, FULL_ROUNDS)]

\* PoseidonSponge::new
sponge_new(config) ==
    [config |-> config, state |-> Zeros(RATE + CAPACITY), mode |-> "Absorbing", idx |-> 0]

\* absorb_internal: add the elements into the rate part, permuting when it is full.
RECURSIVE absorb_internal(_, _, _)
absorb_internal(sp, start, elems) ==
    IF start + Len(elems) <= RATE
    THEN [sp EXCEPT
            !.state = [i \in 1 .. RATE + CAPACITY |->
                        IF i - CAPACITY - start \in 1 .. Len(elems)
                        THEN FAdd(sp.state[i], elems[i - CAPACITY - start])
                        ELSE sp.state[i]],
            !.mode = "Absorbing",
            !.idx = start + Len(elems)]
    ELSE LET k == RATE - start
             filled == [sp EXCEPT
                          !.state = [i \in 1 .. RATE + CAPACITY |->
                                      IF i - CAPACITY - start \in 1 .. k
                                      THEN FAdd(sp.state[i], elems[i - CAPACITY - start])
                                      ELSE sp.state[i]]]
         IN  absorb_internal(permute(filled), 0, SubSeq(elems, k + 1, Len(elems)))

\* CryptographicSponge::absorb: nothing to do for no elements.
sponge_absorb(sp, elems) ==
    IF elems = <<>> THEN sp
    ELSE IF sp.mode = "Absorbing"
         THEN IF sp.idx = RATE THEN absorb_internal(permute(sp), 0, elems)
              ELSE absorb_internal(sp, sp.idx, elems)
         ELSE absorb_internal(permute(sp), 0, elems)

\* squeeze_internal: read n elements out of the rate part; [sp, out].
RECURSIVE squeeze_internal(_, _, _, _)
squeeze_internal(sp, start, n, out) ==
    IF start + n <= RATE
    THEN [sp |-> [sp EXCEPT !.mode = "Squeezing", !.idx = start + n],
          out |-> out \o [i \in 1 .. n |-> sp.state[CAPACITY + start + i]]]
    ELSE LET k == RATE - start
             got == out \o [i \in 1 .. k |-> sp.state[CAPACITY + start + i]]
             nxt == IF n # RATE THEN permute(sp) ELSE sp
         IN  squeeze_internal(nxt, 0, n - k, got)

\* squeeze_field_elements(n)
sponge_squeeze(sp, n) ==
    IF sp.mode = "Absorbing" THEN squeeze_internal(permute(sp), 0, n, <<>>)
    ELSE IF sp.idx = RATE THEN squeeze_internal(permute(sp), 0, n, <<>>)
         ELSE squeeze_internal(sp, sp.idx, n, <<>>)

\* ------------------------------------------------------------- src/src/transcript/poseidon.rs
\* prepare_point: the affine coordinates, each reduced into the scalar field;
\* xy() is None for the identity and the unwrap aborts.
prepare_point(p) ==
    IF p = GIdentity THEN [ok |-> FALSE, xy |-> <<>>]
    ELSE [ok |-> TRUE, xy |-> <<AffineXY[p][1] % P, AffineXY[p][2] % P>>]

\* PoseidonTranscript::new
transcript_new(config) == sponge_new(config)

absorb(ts, v) == sponge_absorb(ts, <<v>>)

absorb_vec(ts, v) == sponge_absorb(ts, v)

\* absorb_point on a point other than the identity
absorb_point(ts, p) == sponge_absorb(ts, prepare_point(p).xy)

\* get_challenge: [ts, c]
get_challenge(ts) ==
    LET sq == sponge_squeeze(ts, 1)
    IN  [ts |-> sponge_absorb(sq.sp, <<sq.out[1]>>), c |-> sq.out[1]]

\* get_challenges(n): [ts, c]
get_challenges(ts, n) ==
    LET sq == sponge_squeeze(ts, n)
    IN  [ts |-> sponge_absorb(sq.sp, sq.out), c |-> sq.out]

\* ------------------------------------------------------------- src/src/pedersen.rs
RECURSIVE Pow2Up(_, _)
Pow2Up(n, k) == IF k >= n THEN k ELSE Pow2Up(n, 2 * k)

next_power_of_two(n) == Pow2Up(n, 1)

\* C::Affine::rand / C::rand: the k-th draw of the generator seeded with seed; never
\* the identity.
RandPoint(seed, k) == 1 + ((seed + k * (4 * seed + 1)) % (P - 1))

\* Pedersen::new_params: next_power_of_two(max) generators, then h.
new_params(seed, max) ==
    LET n == next_power_of_two(max)
    IN  [h |-> RandPoint(seed, n + 1),
         generators |-> [i \in 1 .. n |-> RandPoint(seed, i)]]

\* &params.generators[..n] aborts when n exceeds the number of generators.
SliceAborts(params, n) == n > Len(params.generators)

\* Pedersen::commit: h*r + <g, v>
commit(r, params, v) ==
    GAdd(GMul(params.h, r), msm(SubSeq(params.generators, 1, Len(v)), v))

Aborted == [ok |-> FALSE]

\* Pedersen::prove: [ok, proof, ts] and the challenges r1, d, e it drew; ok is
\* FALSE when the call aborts.
Pedersen_prove(cm, v, r, params, transcript) ==
    IF ~prepare_point(cm).ok THEN Aborted
    ELSE
    LET t1 == absorb_point(transcript, cm)
        c1 == get_challenge(t1)
        r1 == c1.c
        c2 == get_challenges(c1.ts, Len(v))
        d == c2.c
    IN  IF SliceAborts(params, Len(d)) THEN Aborted
        ELSE
        LET r_commit == GAdd(GMul(params.h, r1),
                             msm(SubSeq(params.generators, 1, Len(d)), d))
        IN  IF ~prepare_point(r_commit).ok THEN Aborted
            ELSE
            LET t2 == absorb_point(c2.ts, r_commit)
                c3 == get_challenge(t2)
                e == c3.c
                u == vec_add_vec(d, scalar_mul_vec(e, v))
                r_u == FAdd(r1, FMul(e, r))
            IN  [ok |-> TRUE,
                 proof |-> [r_commit |-> r_commit, u |-> u, r_u |-> r_u],
                 ts |-> c3.ts, r1 |-> r1, d |-> d, e |-> e]

\* Pedersen::verify without the draw of d.
Pedersen_verify_short(cm, proof, params, transcript) ==
    IF ~prepare_point(cm).ok THEN Aborted
    ELSE
    LET t1 == absorb_point(transcript, cm)
        c1 == get_challenge(t1)
    IN  IF ~prepare_point(proof.r_commit).ok THEN Aborted
        ELSE
        LET t2 == absorb_point(c1.ts, proof.r_commit)
            c3 == get_challenge(t2)
            e == c3.c
            lhs == GAdd(proof.r_commit, GMul(cm, e))
        IN  IF SliceAborts(params, Len(proof.u)) THEN Aborted
            ELSE
            LET rhs == GAdd(GMul(params.h, proof.r_u),
                            msm(SubSeq(params.generators, 1, Len(proof.u)), proof.u))
            IN  [ok |-> TRUE, res |-> (lhs = rhs), ts |-> c3.ts,
                 r1 |-> c1.c, d |-> <<>>, e |-> e]

\* Pedersen::verify: [ok, res, ts] and the challenges r1, d, e it drew; ok is FALSE
\* when the call aborts.
Pedersen_verify(cm, proof, params, transcript) ==
    IF ~prepare_point(cm).ok THEN Aborted
    ELSE
    LET t1 == absorb_point(transcript, cm)
        c1 == get_challenge(t1)
        c2 == get_challenges(c1.ts, Len(proof.u))
    IN  IF ~prepare_point(proof.r_commit).ok THEN Aborted
        ELSE
        LET t2 == absorb_point(c2.ts, proof.r_commit)
            c3 == get_challenge(t2)
            e == c3.c
            lhs == GAdd(proof.r_commit, GMul(cm, e))
        IN  IF SliceAborts(params, Len(proof.u)) THEN Aborted
            ELSE
            LET rhs == GAdd(GMul(params.h, proof.r_u),
                            msm(SubSeq(params.generators, 1, Len(proof.u)), proof.u))
            IN  [ok |-> TRUE, res |-> (lhs = rhs), ts |-> c3.ts,
                 r1 |-> c1.c, d |-> c2.c, e |-> e]

\* ------------------------------------------------------------- src/src/fs/nova/mod.rs
\* Witness::new with the blinding of w drawn as 2.
Witness_new_blind(witness, e_len) ==
    [e |-> Zeros(e_len), r_e |-> 1, w |-> witness, r_w |-> 2]

\* Witness::new
Witness_new(witness, e_len) ==
    [e |-> Zeros(e_len), r_e |-> 1, w |-> witness, r_w |-> 1]

\* Witness::commit
Witness_commit(w, params, x) ==
    [cm_e |-> commit(w.r_e, params, w.e),
     u |-> 1,
     cm_w |-> commit(w.r_w, params, w.w),
     x |-> x]

\* ------------------------------------------------------------- src/src/fs/nova/nifs.rs
\* NIFS::compute_t with the cross term A.z2 o B.z1 left out.
compute_t_half(r1cs, u1, u2, z1, z2) ==
    LET az1 == vec_mul_matrix(z1, r1cs.a)
        bz2 == vec_mul_matrix(z2, r1cs.b)
        cz1 == vec_mul_matrix(z1, r1cs.c)
        cz2 == vec_mul_matrix(z2, r1cs.c)
    IN  vec_sub_vec(vec_sub_vec(hadamard(az1, bz2), scalar_mul_vec(u1, cz2)),
                    scalar_mul_vec(u2, cz1))

\* NIFS::compute_t
compute_t(r1cs, u1, u2, z1, z2) ==
    LET az1 == vec_mul_matrix(z1, r1cs.a)
        az2 == vec_mul_matrix(z2, r1cs.a)
        bz1 == vec_mul_matrix(z1, r1cs.b)
        bz2 == vec_mul_matrix(z2, r1cs.b)
        cz1 == vec_mul_matrix(z1, r1cs.c)
        cz2 == vec_mul_matrix(z2, r1cs.c)
        az1_bz2 == hadamard(az1, bz2)
        az2_bz1 == hadamard(az2, bz1)
        u1cz2 == scalar_mul_vec(u1, cz2)
        u2cz1 == scalar_mul_vec(u2, cz1)
    IN  vec_sub_vec(vec_sub_vec(vec_add_vec(az1_bz2, az2_bz1), u1cz2), u2cz1)

\* NIFS::fold_witness with r_e = r_e1 + r_t + r^2.r_e2, the factor r of r_t left out.
fold_witness_blind(w1, w2, t, r, r_t) ==
    LET r2 == FMul(r, r)
    IN  [e |-> vec_add_vec(vec_add_vec(w1.e, scalar_mul_vec(r, t)),
                           scalar_mul_vec(r2, w2.e)),
         r_e |-> FAdd(FAdd(w1.r_e, r_t), FMul(r2, w2.r_e)),
         w |-> vec_add_vec(w1.w, scalar_mul_vec(r, w2.w)),
         r_w |-> FAdd(w1.r_w, FMul(r, w2.r_w))]

\* NIFS::fold_witness
fold_witness(w1, w2, t, r, r_t) ==
    LET r2 == FMul(r, r)
    IN  [e |-> vec_add_vec(vec_add_vec(w1.e, scalar_mul_vec(r, t)),
                           scalar_mul_vec(r2, w2.e)),
         r_e |-> FAdd(FAdd(w1.r_e, FMul(r, r_t)), FMul(r2, w2.r_e)),
         w |-> vec_add_vec(w1.w, scalar_mul_vec(r, w2.w)),
         r_w |-> FAdd(w1.r_w, FMul(r, w2.r_w))]

\* NIFS::fold_committed_instance with u = u1 + u2, the challenge left out.
fold_committed_instance_u(r, cm_t, ci1, ci2) ==
    LET r2 == FMul(r, r)
    IN  [cm_e |-> GAdd(GAdd(ci1.cm_e, GMul(cm_t, r)), GMul(ci2.cm_e, r2)),
         u |-> FAdd(ci1.u, ci2.u),
         cm_w |-> GAdd(ci1.cm_w, GMul(ci2.cm_w, r)),
         x |-> vec_add_vec(ci1.x, scalar_mul_vec(r, ci2.x))]

\* NIFS::fold_committed_instance
fold_committed_instance(r, cm_t, ci1, ci2) ==
    LET r2 == FMul(r, r)
    IN  [cm_e |-> GAdd(GAdd(ci1.cm_e, GMul(cm_t, r)), GMul(ci2.cm_e, r2)),
         u |-> FAdd(ci1.u, FMul(r, ci2.u)),
         cm_w |-> GAdd(ci1.cm_w, GMul(ci2.cm_w, r)),
         x |-> vec_add_vec(ci1.x, scalar_mul_vec(r, ci2.x))]

\* z = [vec![ci.u], ci.x.to_vec(), w.w.to_vec()].concat()
concat_z(ci, w) == <<ci.u>> \o ci.x \o w.w

\* NIFS::prove: (w, ci, t, cm_t)
NIFS_prove(params, r, r1cs, w1, ci1, w2, ci2) ==
    LET t == Eval(compute_t(r1cs, ci1.u, ci2.u, concat_z(ci1, w1), concat_z(ci2, w2)))
        r_t == 1
        cm_t == commit(r_t, params, t)
    IN  [w |-> fold_witness(w1, w2, t, r, r_t),
         ci |-> fold_committed_instance(r, cm_t, ci1, ci2),
         t |-> t,
         cm_t |-> cm_t]

\* NIFS::verify with the two instances in the wrong order.
NIFS_verify_swapped(r, ci1, ci2, cm_t) == fold_committed_instance(r, cm_t, ci2, ci1)

\* NIFS::verify
NIFS_verify(r, ci1, ci2, cm_t) == fold_committed_instance(r, cm_t, ci1, ci2)

\* NIFS::verify_fold_instance without the check of cm_w.
verify_fold_instance_three(r, ci, ci1, ci2, cm_t) ==
    LET r2 == FMul(r, r)
    IN  IF ci.cm_e # GAdd(GAdd(ci1.cm_e, GMul(cm_t, r)), GMul(ci2.cm_e, r2)) THEN FALSE
        ELSE IF ci.u # FAdd(ci1.u, FMul(r, ci2.u)) THEN FALSE
        ELSE IF ci.x # vec_add_vec(ci1.x, scalar_mul_vec(r, ci2.x)) THEN FALSE
        ELSE TRUE

\* NIFS::verify_fold_instance: the four checks in turn, false at the first mismatch.
verify_fold_instance(r, ci, ci1, ci2, cm_t) ==
    LET r2 == FMul(r, r)
    IN  IF ci.cm_e # GAdd(GAdd(ci1.cm_e, GMul(cm_t, r)), GMul(ci2.cm_e, r2)) THEN FALSE
        ELSE IF ci.u # FAdd(ci1.u, FMul(r, ci2.u)) THEN FALSE
        ELSE IF ci.cm_w # GAdd(ci1.cm_w, GMul(ci2.cm_w, r)) THEN FALSE
        ELSE IF ci.x # vec_add_vec(ci1.x, scalar_mul_vec(r, ci2.x)) THEN FALSE
        ELSE TRUE

\* NIFS::prove_commitments: [ok, proofs, ts] with proofs the returned tuple
\* (cm_t_proof, cm_w_proof, cm_e_proof); the three proofs are made in the order
\* cm_w, cm_e, cm_t on the one transcript. Each let of the code binds one value.
prove_commitments(ts, params, w, ci, t, cm_t) ==
    CHOOSE out \in
        { IF ~pw.ok THEN Aborted
          ELSE CHOOSE out_e \in
              { IF ~pe.ok THEN Aborted
                ELSE CHOOSE out_t \in
                    { IF ~pt.ok THEN Aborted
                      ELSE [ok |-> TRUE, proofs |-> <<pt.proof, pw.proof, pe.proof>>,
                            ts |-> pt.ts]
                      : pt \in {Pedersen_prove(cm_t, t, 1, params, pe.ts)} } : TRUE
                : pe \in {Pedersen_prove(ci.cm_e, w.e, w.r_e, params, pw.ts)} } : TRUE
          : pw \in {Pedersen_prove(ci.cm_w, w.w, w.r_w, params, ts)} } : TRUE

\* NIFS::verify_commitments: [ok, res, ts]; false at the first proof that fails.
verify_commitments(ts, params, ci, cm_t, cm_t_proof, cm_w_proof, cm_e_proof) ==
    CHOOSE out \in
        { IF ~vw.ok THEN Aborted
          ELSE IF ~vw.res THEN [ok |-> TRUE, res |-> FALSE, ts |-> vw.ts]
          ELSE CHOOSE out_e \in
              { IF ~ve.ok THEN Aborted
                ELSE IF ~ve.res THEN [ok |-> TRUE, res |-> FALSE, ts |-> ve.ts]
                ELSE CHOOSE out_t \in
                    { IF ~vt.ok THEN Aborted
                      ELSE IF ~vt.res THEN [ok |-> TRUE, res |-> FALSE, ts |-> vt.ts]
                      ELSE [ok |-> TRUE, res |-> TRUE, ts |-> vt.ts]
                      : vt \in {Pedersen_verify(cm_t, cm_t_proof, params, ve.ts)} } : TRUE
                : ve \in {Pedersen_verify(ci.cm_e, cm_e_proof, params, vw.ts)} } : TRUE
          : vw \in {Pedersen_verify(ci.cm_w, cm_w_proof, params, ts)} } : TRUE

\* tests::check_relaxed_r1cs, as the truth value of its assertion
check_relaxed_r1cs(r1cs, z, u, e) ==
    LET az == vec_mul_matrix(z, r1cs.a)
        bz == vec_mul_matrix(z, r1cs.b)
        cz == vec_mul_matrix(z, r1cs.c)
    IN  hadamard(az, bz) = vec_add_vec(e, scalar_mul_vec(u, cz))

\* ---------------------------------------------------------------- state
VARIABLES
    ccs,   \* a satisfaction check: the relation, the assignment and the result
    ped,   \* one commitment opening: prover, proof in flight, verifier
    fold,  \* the folding loop: accumulator, last round, final openings
    vfi,   \* one call of verify_fold_instance: its arguments and its answer
    vec,   \* one call of a vector operation or of a fold on given vectors
    tr     \* a transcript driven by a sequence of calls

vars == <<ccs, ped, fold, vfi, vec, tr>>

CcsIdle == [k |-> 0, z |-> <<>>, res |-> "idle"]

NoProof == [r_commit |-> GIdentity, u |-> <<>>, r_u |-> 0]

NoDraws == [r1 |-> 0, d |-> <<>>, e |-> 0]

PedIdle ==
    [pc |-> "idle", config |-> 0, params |-> [h |-> GIdentity, generators |-> <<>>],
     v |-> <<>>, r |-> 0, cm |-> GIdentity,
     ts_prove |-> sponge_new(0), ts_verify |-> sponge_new(0),
     honest |-> NoProof, proof |-> NoProof, tamper |-> "none",
     pdraws |-> NoDraws, vdraws |-> NoDraws, res |-> FALSE]

NoProofs == [cm_t_proof |-> NoProof, cm_w_proof |-> NoProof, cm_e_proof |-> NoProof]

FoldIdle ==
    [pc |-> "idle", k |-> 0, config |-> 0,
     params |-> [h |-> GIdentity, generators |-> <<>>],
     z1 |-> <<>>,
     w1 |-> Witness_new(<<>>, 0),
     ci1 |-> [cm_e |-> GIdentity, u |-> 0, cm_w |-> GIdentity, x |-> <<>>],
     t1 |-> <<>>, cm_t1 |-> GIdentity,
     rounds |-> 0, saved |-> <<>>, last |-> <<>>,
     ts_prove |-> sponge_new(0), ts_verify |-> sponge_new(0),
     proofs |-> NoProofs, res |-> FALSE]

NoInstance == [cm_e |-> GIdentity, u |-> 0, cm_w |-> GIdentity, x |-> <<>>]

VfiIdle ==
    [pc |-> "idle", r |-> 0, ci |-> NoInstance, ci1 |-> NoInstance, ci2 |-> NoInstance,
     cm_t |-> GIdentity, res |-> FALSE]

VecIdle == [pc |-> "idle", op |-> "none", a |-> <<>>, b |-> <<>>, res |-> Aborted]

TrIdle ==
    [pc |-> "idle", ts |-> sponge_new(0), before |-> sponge_new(0),
     calls |-> <<>>, out |-> <<>>]

\* ------------------------------------------------- CCS::is_satisfied on an R1CS
InitCCS ==
    /\ \E k \in 1 .. Len(R1CSInputs) :
        \E z \in [1 .. R1CSInputs[k].a.n_cols -> F] :
            ccs = [k |-> k, z |-> z, res |-> "none"]
    /\ ped = PedIdle
    /\ fold = FoldIdle
    /\ vfi = VfiIdle
    /\ vec = VecIdle
    /\ tr = TrIdle

CheckSatisfied ==
    /\ ccs.res = "none"
    /\ ccs' = [ccs EXCEPT !.res = is_satisfied(from_r1cs(R1CSInputs[ccs.k]), ccs.z)]
    /\ UNCHANGED <<ped, fold, vfi, vec, tr>>

NextCCS == CheckSatisfied

SpecCCS == InitCCS /\ [][NextCCS]_vars

\* The R1CS relation checked row by row on the matrices, without the CCS.
R1CSHolds(r1cs, z) ==
    LET az == vec_mul_matrix(z, r1cs.a)
        bz == vec_mul_matrix(z, r1cs.b)
        cz == vec_mul_matrix(z, r1cs.c)
    IN  \A i \in 1 .. r1cs.a.n_rows : FMul(az[i], bz[i]) = cz[i]

\* C10: the CCS built by from_r1cs accepts an assignment z exactly when
\* (A.z) o (B.z) = C.z holds in every row, and answers NotSatisfied otherwise.
FromR1csRecoversR1CS ==
    ccs.res \in {"Ok", "NotSatisfied"} =>
        /\ ccs.res = "Ok" <=> R1CSHolds(R1CSInputs[ccs.k], ccs.z)
        /\ ccs.res = "NotSatisfied" <=> ~R1CSHolds(R1CSInputs[ccs.k], ccs.z)

\* The check has run on the test relation and rejected an assignment with z[0] = 1.
FromR1csWitness ==
    /\ ccs.k = 1
    /\ ccs.res = "NotSatisfied"
    /\ ccs.z[1] = 1

\* The check has run on the test relation and accepted get_test_z(3).
FromR1csAccepts ==
    /\ ccs.k = 1
    /\ ccs.res = "Ok"
    /\ ccs.z = get_test_z(3)

\* The number of entries in which z differs from the assignment get_test_z(x).
EntriesChanged(z, x) ==
    Cardinality({i \in 1 .. Len(z) : z[i] # get_test_z(x)[i]})

\* C11: on the CCS of the test relation x^3 + x + 5 = y, is_satisfied accepts
\* get_test_z(x) for x = 3 and x = 2, and answers NotSatisfied on every assignment
\* that differs from it in exactly one entry.
TestAssignmentSound ==
    (ccs.k = 1 /\ ccs.res \in {"Ok", "NotSatisfied"}) =>
        \A x \in {2, 3} :
            /\ EntriesChanged(ccs.z, x) = 0 => ccs.res = "Ok"
            /\ EntriesChanged(ccs.z, x) = 1 => ccs.res = "NotSatisfied"

\* The check has rejected get_test_z(3) with its entry y alone changed.
TestAssignmentWitness ==
    /\ ccs.k = 1
    /\ ccs.res = "NotSatisfied"
    /\ EntriesChanged(ccs.z, 3) = 1
    /\ ccs.z[3] # get_test_z(3)[3]

\* ------------------------------------------------- a Pedersen opening (test_pedersen_vec)
\* Longest committed vector; the parameters are made for this length.
MaxVecLen == 1

\* Seeds of the generator that draws the parameters: 0 .. MaxSeed.
MaxSeed == 0

InitPed ==
    /\ ccs = CcsIdle
    /\ fold = FoldIdle
    /\ vfi = VfiIdle
    /\ vec = VecIdle
    /\ tr = TrIdle
    /\ \E seed \in 0 .. MaxSeed, config \in 1 .. Len(PoseidonConfigs),
          n \in 0 .. MaxVecLen, r \in F :
        \E v \in [1 .. n -> F] :
            ped = [PedIdle EXCEPT
                     !.pc = "start",
                     !.config = config,
                     !.params = new_params(seed, MaxVecLen),
                     !.v = v,
                     !.r = r,
                     !.ts_prove = transcript_new(config),
                     !.ts_verify = transcript_new(config)]

\* let cm = Pedersen::commit(&r, &params, &v)
PedCommit ==
    /\ ped.pc = "start"
    /\ ped' = IF SliceAborts(ped.params, Len(ped.v))
              THEN [ped EXCEPT !.pc = "aborted_commit"]
              ELSE [ped EXCEPT !.pc = "committed",
                               !.cm = commit(ped.r, ped.params, ped.v)]
    /\ UNCHANGED <<ccs, fold, vfi, vec, tr>>

\* let proof = Pedersen::prove(&cm, &v, &r, &params, &mut ts_prove)
PedProve ==
    /\ ped.pc = "committed"
    /\ \E out \in {Pedersen_prove(ped.cm, ped.v, ped.r, ped.params, ped.ts_prove)} :
           ped' = IF out.ok
                  THEN [ped EXCEPT !.pc = "proved",
                                   !.honest = out.proof,
                                   !.proof = out.proof,
                                   !.ts_prove = out.ts,
                                   !.pdraws = [r1 |-> out.r1, d |-> out.d, e |-> out.e]]
                  ELSE [ped EXCEPT !.pc = "aborted_prove"]
    /\ UNCHANGED <<ccs, fold, vfi, vec, tr>>

\* The proof is changed in exactly one component on its way to the verifier.
TamperRCommit ==
    /\ ped.pc = "proved" /\ ped.tamper = "none"
    /\ \E g \in F \ {ped.proof.r_commit} :
        ped' = [ped EXCEPT !.proof.r_commit = g, !.tamper = "r_commit"]
    /\ UNCHANGED <<ccs, fold, vfi, vec, tr>>

TamperU ==
    /\ ped.pc = "proved" /\ ped.tamper = "none"
    /\ \E i \in 1 .. Len(ped.proof.u) :
        \E x \in F \ {ped.proof.u[i]} :
            ped' = [ped EXCEPT !.proof.u[i] = x, !.tamper = "u"]
    /\ UNCHANGED <<ccs, fold, vfi, vec, tr>>

TamperRU ==
    /\ ped.pc = "proved" /\ ped.tamper = "none"
    /\ \E x \in F \ {ped.proof.r_u} :
        ped' = [ped EXCEPT !.proof.r_u = x, !.tamper = "r_u"]
    /\ UNCHANGED <<ccs, fold, vfi, vec, tr>>

\* let verify = Pedersen::verify(cm, proof, &params, &mut ts_verify)
PedVerify ==
    /\ ped.pc = "proved"
    /\ \E out \in {Pedersen_verify(ped.cm, ped.proof, ped.params, ped.ts_verify)} :
           ped' = IF out.ok
                  THEN [ped EXCEPT !.pc = "verified",
                                   !.res = out.res,
                                   !.ts_verify = out.ts,
                                   !.vdraws = [r1 |-> out.r1, d |-> out.d, e |-> out.e]]
                  ELSE [ped EXCEPT !.pc = "aborted_verify"]
    /\ UNCHANGED <<ccs, fold, vfi, vec, tr>>

NextPed ==
    \/ PedCommit
    \/ PedProve
    \/ TamperRCommit
    \/ TamperU
    \/ TamperRU
    \/ PedVerify

SpecPed == InitPed /\ [][NextPed]_vars

PedEnded == ped.pc \in {"verified", "aborted_commit", "aborted_prove", "aborted_verify"}

\* C5: an honest opening of commit(r, params, v), proved and verified on
\* transcripts in the same state, makes Pedersen::verify return true.
PedersenRoundTrip ==
    (PedEnded /\ ped.tamper = "none") => (ped.pc = "verified" /\ ped.res = TRUE)

\* Where the round trip does end in Pedersen::verify, the answer is true.
PedersenRoundTripUnlessAborted ==
    (ped.pc = "verified" /\ ped.tamper = "none") => ped.res = TRUE

\* An honest run aborts only in prepare_point, on cm or r_commit being the identity.
PedersenAbortsOnIdentity ==
    /\ ped.pc # "aborted_commit"
    /\ (ped.pc = "aborted_prove" /\ ped.cm # GIdentity) =>
           \E r1 \in F : \E d \in [1 .. Len(ped.v) -> F] :
               GAdd(GMul(ped.params.h, r1), msm(ped.params.generators, d)) = GIdentity
    /\ (ped.pc = "aborted_verify" /\ ped.tamper = "none") => FALSE

\* C6: a proof changed in exactly one component (r_commit, one entry of u, or r_u)
\* makes Pedersen::verify return false.
TamperedProofRejected ==
    (PedEnded /\ ped.tamper # "none") => (ped.pc = "verified" /\ ped.res = FALSE)

\* A changed entry of u or a changed r_u is always answered with false.
TamperedOpeningRejected ==
    (PedEnded /\ ped.tamper \in {"u", "r_u"}) => (ped.pc = "verified" /\ ped.res = FALSE)

\* C8: the verifier's view (cm, the proof, params and the challenges it draws) does
\* not determine the opening: some other opening (v2, r2) of the same cm gives the
\* same proof on the same transcript.
OpeningHiddenFromVerifier ==
    (ped.pc = "verified" /\ ped.tamper = "none") =>
        \E r2 \in F : \E v2 \in [1 .. Len(ped.v) -> F] :
            /\ <<v2, r2>> # <<ped.v, ped.r>>
            /\ commit(r2, ped.params, v2) = ped.cm
            /\ LET alt == Pedersen_prove(ped.cm, v2, r2, ped.params,
                                         transcript_new(ped.config))
               IN  alt.ok /\ alt.proof = ped.proof

\* 1/a in the field, for a # 0
FInv(a) == CHOOSE b \in F : FMul(a, b) = 1

\* What the verifier computes from its own draws: whenever its challenge e is not
\* zero, (u - d)/e is the opened vector and (r_u - r1)/e is the blinding.
VerifierRecoversOpening ==
    (ped.pc = "verified" /\ ped.tamper = "none" /\ ped.vdraws.e # 0) =>
        /\ ped.v = scalar_mul_vec(FInv(ped.vdraws.e), vec_sub_vec(ped.proof.u, ped.vdraws.d))
        /\ ped.r = FMul(FInv(ped.vdraws.e), FSub(ped.proof.r_u, ped.vdraws.r1))

\* C15: on an honest proof, with the two transcripts equal before the calls,
\* Pedersen::verify makes the draws Pedersen::prove made: it derives the same r1, d
\* and e, and leaves its transcript in the state the prover's is in.
ProverVerifierLockstep ==
    (ped.pc = "verified" /\ ped.tamper = "none") =>
        /\ ped.vdraws.e = ped.pdraws.e
        /\ ped.vdraws.r1 = ped.pdraws.r1
        /\ ped.vdraws.d = ped.pdraws.d
        /\ Len(ped.vdraws.d) = Len(ped.v)
        /\ ped.ts_verify = ped.ts_prove

\* An honest opening of a vector with an entry has been verified, and the
\* transcripts have moved from their first state.
ProverVerifierWitness ==
    /\ ped.pc = "verified" /\ ped.tamper = "none"
    /\ Len(ped.v) >= 1
    /\ ped.res
    /\ ped.vdraws.e # 0
    /\ ped.ts_verify # transcript_new(ped.config)

\* ------------------------------------------------- the folding loop (test_nifs_fold_loop)
\* Folding rounds in one run.
MaxRounds == 3

\* Witness::new and Witness::commit on the two parts of z
FreshPair(r1cs, params, z) ==
    LET wx == split_z(r1cs, z)
        w == Witness_new(wx.w, r1cs.a.n_rows)
    IN  [w |-> w, ci |-> Witness_commit(w, params, wx.x)]

\* The state at the head of the loop: the accumulator made from z1.
LoopStart(k, seed, z1) ==
    LET r1cs == R1CSInputs[k]
        params == new_params(seed, r1cs.a.n_cols)
        pair == FreshPair(r1cs, params, z1)
    IN  [FoldIdle EXCEPT
           !.pc = "loop", !.k = k, !.params = params,
           !.z1 = z1, !.w1 = pair.w, !.ci1 = pair.ci,
           !.t1 = <<>>, !.cm_t1 = pair.ci.cm_w]

\* The rest of a round once NIFS::prove has returned out and NIFS::verify ci3: the
\* round's assertions are recorded and the accumulator is replaced by (w3, ci3).
LoopBodyEnd(st, r, p2, out, ci3) ==
    LET r1cs == R1CSInputs[st.k]
        z2 == concat_z(p2.ci, p2.w)
        z3 == concat_z(ci3, out.w)
        z_aux == vec_add_vec(st.z1, scalar_mul_vec(r, z2))
        ci_expected == Witness_commit(out.w, st.params, ci3.x)
    IN  [st EXCEPT
           !.z1 = z3, !.w1 = out.w, !.ci1 = ci3,
           !.t1 = out.t, !.cm_t1 = out.cm_t,
           !.rounds = st.rounds + 1,
           !.last = << [r |-> r, z1 |-> st.z1, w1 |-> st.w1, ci1 |-> st.ci1,
                        z2 |-> z2, w2 |-> p2.w, ci2 |-> p2.ci,
                        w3 |-> out.w, ci_prove |-> out.ci, ci3 |-> ci3,
                        t |-> out.t, cm_t |-> out.cm_t,
                        z_aux |-> z_aux,
                        relaxed |-> check_relaxed_r1cs(r1cs, z3, ci3.u, out.w.e),
                        ci_expected |-> ci_expected,
                        fold_ok |-> verify_fold_instance(r, ci3, st.ci1, p2.ci, out.cm_t)] >>]

\* One round of the loop body with challenge r against the pair p2 = [w, ci]:
\* NIFS::prove, then NIFS::verify on the cm_t it returned, then the rest.
LoopBody(st, r, p2) ==
    CHOOSE nxt \in
        { LoopBodyEnd(st, r, p2, out, NIFS_verify(r, st.ci1, p2.ci, out.cm_t)) :
            out \in {NIFS_prove(st.params, r, R1CSInputs[st.k],
                                st.w1, st.ci1, p2.w, p2.ci)} } : TRUE

\* The first accumulator is made from z1 = get_test_z(3).
InitFold ==
    /\ ccs = CcsIdle
    /\ ped = PedIdle
    /\ vfi = VfiIdle
    /\ vec = VecIdle
    /\ tr = TrIdle
    /\ \E k \in 1 .. Len(R1CSInputs), seed \in 0 .. MaxSeed :
        fold = LoopStart(k, seed, FreshZ(k, 3))

\* Round i against the fresh instance of z2 = get_test_z(i + 4).
FoldFresh ==
    /\ fold.pc = "loop" /\ fold.rounds < MaxRounds
    /\ \E r \in F :
        \E nxt \in {LoopBody(fold, r, FreshPair(R1CSInputs[fold.k], fold.params,
                                                FreshZ(fold.k, fold.rounds + 4)))} :
            fold' = nxt
    /\ UNCHANGED <<ccs, ped, vfi, vec, tr>>

\* The accumulator is kept aside, to be the second input of a later round.
Stash ==
    /\ fold.pc = "loop" /\ fold.rounds >= 1 /\ fold.saved = <<>>
    /\ fold' = [fold EXCEPT !.saved = << [w |-> fold.w1, ci |-> fold.ci1] >>]
    /\ UNCHANGED <<ccs, ped, vfi, vec, tr>>

\* A round against the pair kept aside: both inputs are folded pairs.
FoldSaved ==
    /\ fold.pc = "loop" /\ fold.rounds < MaxRounds /\ fold.saved # <<>>
    /\ \E r \in F :
        \E nxt \in {LoopBody(fold, r, fold.saved[1])} :
            fold' = nxt
    /\ UNCHANGED <<ccs, ped, vfi, vec, tr>>

NextFold ==
    \/ FoldFresh
    \/ Stash
    \/ FoldSaved

SpecFold == InitFold /\ [][NextFold]_vars

\* The relaxed relation (A.z) o (B.z) = u.(C.z) + e, row by row, for z = (u, x, w).
RelaxedHolds(r1cs, w, ci) ==
    LET z == concat_z(ci, w)
        az == vec_mul_matrix(z, r1cs.a)
        bz == vec_mul_matrix(z, r1cs.b)
        cz == vec_mul_matrix(z, r1cs.c)
    IN  /\ Len(w.e) = r1cs.a.n_rows
        /\ \A i \in 1 .. r1cs.a.n_rows :
               FMul(az[i], bz[i]) = FAdd(FMul(ci.u, cz[i]), w.e[i])

FoldRan == fold.pc = "loop" /\ Len(fold.last) = 1

\* C1: when both inputs of a round satisfy the relaxed relation, so does the pair
\* (w3, ci3) that NIFS::prove returns, for every challenge.
SingleFoldExact ==
    FoldRan =>
        LET L == fold.last[1]
            r1cs == R1CSInputs[fold.k]
        IN  (RelaxedHolds(r1cs, L.w1, L.ci1) /\ RelaxedHolds(r1cs, L.w2, L.ci2))
                => RelaxedHolds(r1cs, L.w3, L.ci_prove)

\* A round on the test relation whose two inputs are both folded pairs with a
\* nonzero error vector, with a challenge other than 0 and 1.
SingleFoldWitness ==
    /\ FoldRan
    /\ fold.k = 1
    /\ LET L == fold.last[1]
       IN  /\ L.r \notin {0, 1}
           /\ L.w1.e # Zeros(4) /\ L.w2.e # Zeros(4)
           /\ L.w1 # L.w2
           /\ L.ci1.u \notin {0, 1}
           /\ L.t # Zeros(4)
           /\ RelaxedHolds(R1CSInputs[1], L.w1, L.ci1)
           /\ RelaxedHolds(R1CSInputs[1], L.w2, L.ci2)

\* C2: the accumulator (w, ci), with ci taken from NIFS::verify, satisfies the
\* relaxed relation in every state of the loop.
AccumulatorRelaxed ==
    fold.pc = "loop" => RelaxedHolds(R1CSInputs[fold.k], fold.w1, fold.ci1)

\* The accumulator after the second round on the test relation, against fresh
\* instances only, with a nonzero error vector.
AccumulatorWitness ==
    /\ fold.pc = "loop"
    /\ fold.k = 1
    /\ fold.rounds >= 2
    /\ fold.saved = <<>>
    /\ fold.w1.e # Zeros(4)
    /\ fold.ci1.u \notin {0, 1}

\* C3: when the inputs' commitments open to their witnesses and cm_t to t, the
\* commitments of the folded witness are the cm_e and cm_w of the folded instance.
FoldCommitsConsistent ==
    FoldRan =>
        LET L == fold.last[1]
            opens(w, ci) == /\ ci.cm_e = commit(w.r_e, fold.params, w.e)
                            /\ ci.cm_w = commit(w.r_w, fold.params, w.w)
            folded == fold_committed_instance(L.r, L.cm_t, L.ci1, L.ci2)
        IN  (opens(L.w1, L.ci1) /\ opens(L.w2, L.ci2) /\ L.cm_t = commit(1, fold.params, L.t))
                => /\ L.ci_expected.cm_e = folded.cm_e
                   /\ L.ci_expected.cm_w = folded.cm_w

\* A round with a nonzero challenge whose folded commitments are not the identity.
FoldCommitsWitness ==
    /\ FoldRan
    /\ LET L == fold.last[1]
       IN  /\ L.r \notin {0, 1}
           /\ L.ci1.cm_e = commit(L.w1.r_e, fold.params, L.w1.e)
           /\ L.ci2.cm_w = commit(L.w2.r_w, fold.params, L.w2.w)
           /\ L.cm_t = commit(1, fold.params, L.t)
           /\ L.t # Zeros(Len(L.t))
           /\ L.ci_expected.cm_e # GIdentity
           /\ L.ci_expected.cm_e # L.ci1.cm_e

\* z is z1 + r.z2, entry by entry.
IsLinear(z, z1, r, z2) ==
    /\ Len(z) = Len(z1) /\ Len(z) = Len(z2)
    /\ \A i \in 1 .. Len(z) : z[i] = (z1[i] + r * z2[i]) % P

\* C14: for inputs of equal shape, the assignment read off the fold output,
\* (ci3.u, ci3.x, w3.w), is z1 + r.z2 entry by entry, with ci3 from NIFS::verify
\* and with ci3 from NIFS::prove.
FoldedAssignmentLinear ==
    FoldRan =>
        LET L == fold.last[1]
            z1 == concat_z(L.ci1, L.w1)
            z2 == concat_z(L.ci2, L.w2)
        IN  (Len(L.ci1.x) = Len(L.ci2.x) /\ Len(L.w1.w) = Len(L.w2.w)) =>
                /\ IsLinear(concat_z(L.ci3, L.w3), z1, L.r, z2)
                /\ IsLinear(concat_z(L.ci_prove, L.w3), z1, L.r, z2)
                /\ fold.z1 = L.z_aux

\* A round on the test relation with a challenge other than 0 and 1, a folded first
\* input and a second input with a different assignment.
FoldedAssignmentWitness ==
    /\ FoldRan
    /\ fold.k = 1
    /\ LET L == fold.last[1]
       IN  /\ L.r \notin {0, 1}
           /\ L.ci1.u \notin {0, 1}
           /\ concat_z(L.ci1, L.w1) # concat_z(L.ci2, L.w2)
           /\ L.z2 # Zeros(6)
           /\ fold.z1 # L.z1

\* The pairs a state of the loop holds: the accumulator, the pair kept aside, and
\* the inputs and the output of the last round.
PairsHeld ==
    {[w |-> fold.w1, ci |-> fold.ci1]}
        \cup {fold.saved[i] : i \in 1 .. Len(fold.saved)}
        \cup UNION {{[w |-> fold.last[i].w1, ci |-> fold.last[i].ci1],
                     [w |-> fold.last[i].w2, ci |-> fold.last[i].ci2],
                     [w |-> fold.last[i].w3, ci |-> fold.last[i].ci_prove]}
                    : i \in 1 .. Len(fold.last)}

\* C17: in every pair made by Witness::new and Witness::commit or by folds of such
\* pairs, the blinding scalar w.r_w equals the public scalar ci.u.
BlindingEqualsU ==
    fold.pc = "loop" => \A p \in PairsHeld : p.w.r_w = p.ci.u

\* A round whose two inputs are both folded pairs and whose output has a scalar u
\* other than 0 and 1.
BlindingEqualsUWitness ==
    /\ FoldRan
    /\ LET L == fold.last[1]
       IN  /\ L.ci1.u \notin {0, 1}
           /\ L.ci2.u \notin {0, 1}
           /\ L.ci1.u # L.ci2.u
           /\ L.r \notin {0, 1}
           /\ L.w3.r_w \notin {0, 1}
           /\ L.w3.r_w = L.ci_prove.u

\* ------------------------------------------------- NIFS::verify_fold_instance on public data
\* Committed instances given as inputs; the two inputs of a fold have x of one length.
InstanceInputs ==
    [cm_e : {0, 2}, u : {1, 3}, cm_w : {1}, x : {<<2>>, <<0, 3>>}]

\* What is added to each field of the folded instance to make the claimed one.
Deltas == {0, 1, 3}

\* ci with d[1], d[2], d[3] added to cm_e, u, cm_w and d[4] to the first entry of x.
Shifted(ci, d) ==
    [cm_e |-> GAdd(ci.cm_e, d[1]),
     u |-> FAdd(ci.u, d[2]),
     cm_w |-> GAdd(ci.cm_w, d[3]),
     x |-> [i \in 1 .. Len(ci.x) |-> IF i = 1 THEN FAdd(ci.x[i], d[4]) ELSE ci.x[i]]]

InitVfi ==
    /\ ccs = CcsIdle
    /\ ped = PedIdle
    /\ fold = FoldIdle
    /\ vec = VecIdle
    /\ tr = TrIdle
    /\ \E r \in F, cm_t \in {0, 3}, ci1 \in InstanceInputs, ci2 \in InstanceInputs :
        \E d \in [1 .. 4 -> Deltas] :
            /\ Len(ci1.x) = Len(ci2.x)
            /\ vfi = [pc |-> "call", r |-> r,
                      ci |-> Shifted(fold_committed_instance(r, cm_t, ci1, ci2), d),
                      ci1 |-> ci1, ci2 |-> ci2, cm_t |-> cm_t, res |-> FALSE]

VerifyFoldInstance ==
    /\ vfi.pc = "call"
    /\ vfi' = [vfi EXCEPT
                 !.pc = "done",
                 !.res = verify_fold_instance(vfi.r, vfi.ci, vfi.ci1, vfi.ci2, vfi.cm_t)]
    /\ UNCHANGED <<ccs, ped, fold, vec, tr>>

NextVfi == VerifyFoldInstance

SpecVfi == InitVfi /\ [][NextVfi]_vars

\* The four equations of a fold, each written out on the fields.
CmEFolded == vfi.ci.cm_e = (vfi.ci1.cm_e + vfi.r * vfi.cm_t + vfi.r * vfi.r * vfi.ci2.cm_e) % P

UFolded == vfi.ci.u = (vfi.ci1.u + vfi.r * vfi.ci2.u) % P

CmWFolded == vfi.ci.cm_w = (vfi.ci1.cm_w + vfi.r * vfi.ci2.cm_w) % P

XFolded ==
    /\ Len(vfi.ci.x) = Len(vfi.ci1.x)
    /\ \A i \in 1 .. Len(vfi.ci.x) :
           vfi.ci.x[i] = (vfi.ci1.x[i] + vfi.r * vfi.ci2.x[i]) % P

\* The number of fields in which the claimed instance differs from the folded one.
FieldsChanged ==
    LET good == fold_committed_instance(vfi.r, vfi.cm_t, vfi.ci1, vfi.ci2)
    IN  Cardinality({f \in {"cm_e", "u", "cm_w", "x"} : vfi.ci[f] # good[f]})

\* C4: verify_fold_instance answers true exactly when the four equations hold; it
\* answers true for the instance fold_committed_instance returns and false for one
\* that differs from it in a single field.
VerifyFoldInstanceExact ==
    vfi.pc = "done" =>
        /\ vfi.res <=> (CmEFolded /\ UFolded /\ CmWFolded /\ XFolded)
        /\ FieldsChanged = 0 => vfi.res
        /\ FieldsChanged = 1 => ~vfi.res

\* The call has answered false on an instance whose only wrong field is cm_w.
VerifyFoldInstanceWitness ==
    /\ vfi.pc = "done"
    /\ ~vfi.res
    /\ FieldsChanged = 1
    /\ CmEFolded /\ UFolded /\ XFolded /\ ~CmWFolded
    /\ vfi.r \notin {0, 1}

\* ------------------------------------------------- the final openings (test_nifs_fold_loop)
\* Inputs of the first accumulator: the test's 3, and 4, the input of the first
\* fresh instance.
AccInputs == {3, 4}

InitOpen ==
    /\ ccs = CcsIdle
    /\ ped = PedIdle
    /\ vfi = VfiIdle
    /\ vec = VecIdle
    /\ tr = TrIdle
    /\ \E k \in 1 .. Len(R1CSInputs), seed \in 0 .. MaxSeed,
          config \in 1 .. Len(PoseidonConfigs) :
        \E input \in AccInputs :
            fold = [LoopStart(k, seed, FreshZ(k, input)) EXCEPT !.config = config]

\* NIFS::prove_commitments on a new transcript, after the loop; the returned tuple
\* is bound to (cm_t_proof, cm_w_proof, cm_e_proof).
ProveCommitments ==
    /\ fold.pc = "loop" /\ fold.rounds >= 1
    /\ \E out \in {prove_commitments(transcript_new(fold.config), fold.params,
                                     fold.w1, fold.ci1, fold.t1, fold.cm_t1)} :
        fold' = IF out.ok
                THEN [fold EXCEPT
                        !.pc = "proved",
                        !.ts_prove = out.ts,
                        !.proofs = [cm_t_proof |-> out.proofs[1],
                                    cm_w_proof |-> out.proofs[2],
                                    cm_e_proof |-> out.proofs[3]]]
                ELSE [fold EXCEPT !.pc = "aborted_prove"]
    /\ UNCHANGED <<ccs, ped, vfi, vec, tr>>

\* NIFS::verify_commitments on a second new transcript of the same config.
VerifyCommitments ==
    /\ fold.pc = "proved"
    /\ \E out \in {verify_commitments(transcript_new(fold.config), fold.params,
                                      fold.ci1, fold.cm_t1, fold.proofs.cm_t_proof,
                                      fold.proofs.cm_w_proof, fold.proofs.cm_e_proof)} :
        fold' = IF out.ok
                THEN [fold EXCEPT !.pc = "verified", !.ts_verify = out.ts,
                                  !.res = out.res]
                ELSE [fold EXCEPT !.pc = "aborted_verify"]
    /\ UNCHANGED <<ccs, ped, vfi, vec, tr>>

NextOpen ==
    \/ FoldFresh
    \/ ProveCommitments
    \/ VerifyCommitments

SpecOpen == InitOpen /\ [][NextOpen]_vars

OpenEnded == fold.pc \in {"verified", "aborted_prove", "aborted_verify"}

\* C7: after one or more rounds from fresh instances, verify_commitments accepts
\* the three proofs prove_commitments returns for the final accumulator and the
\* last round's (t, cm_t).
FinalOpeningsVerify ==
    OpenEnded => (fold.pc = "verified" /\ fold.res = TRUE)

\* Where both calls return, the answer is true.
FinalOpeningsVerifyUnlessAborted ==
    fold.pc = "verified" => fold.res = TRUE

\* prove_commitments aborts on every accumulator whose cm_w is the identity.
OpeningAbortsOnIdentity ==
    (OpenEnded /\ fold.ci1.cm_w = GIdentity) => fold.pc = "aborted_prove"

\* ------------------------------------------------- verification of given data
\* Proofs as a caller of verify may hand them in: any r_commit, and a u of up to one
\* entry more than there are generators.
ProofInputs ==
    [r_commit : F,
     u : UNION {[1 .. n -> {0, 2}] : n \in 0 .. next_power_of_two(MaxVecLen) + 1},
     r_u : {0, 3}]

\* Proofs of the empty vector, with or without the identity as r_commit.
EmptyProofInputs == [r_commit : {GIdentity, 4}, u : {<<>>}, r_u : {0}]

\* Either Pedersen::verify is about to be called on a commitment and a proof, or
\* NIFS::verify_commitments on an instance, a cm_t and three proofs.
InitVerifyAny ==
    /\ ccs = CcsIdle
    /\ vfi = VfiIdle
    /\ vec = VecIdle
    /\ tr = TrIdle
    /\ \/ /\ fold = FoldIdle
          /\ \E config \in 1 .. Len(PoseidonConfigs), cm \in F, proof \in ProofInputs :
                ped = [PedIdle EXCEPT
                         !.pc = "proved",
                         !.config = config,
                         !.params = new_params(0, MaxVecLen),
                         !.cm = cm,
                         !.proof = proof,
                         !.ts_verify = transcript_new(config)]
       \/ /\ ped = PedIdle
          /\ \E cm_w \in {GIdentity, 1}, cm_e \in {GIdentity, 2}, cm_t \in {GIdentity, 3},
                pw \in EmptyProofInputs, pe \in EmptyProofInputs, pt \in EmptyProofInputs :
                fold = [FoldIdle EXCEPT
                          !.pc = "proved",
                          !.config = 1,
                          !.params = new_params(0, MaxVecLen),
                          !.ci1 = [cm_e |-> cm_e, u |-> 1, cm_w |-> cm_w, x |-> <<>>],
                          !.cm_t1 = cm_t,
                          !.proofs = [cm_t_proof |-> pt, cm_w_proof |-> pw,
                                      cm_e_proof |-> pe]]

NextVerifyAny ==
    \/ PedVerify
    \/ VerifyCommitments

SpecVerifyAny == InitVerifyAny /\ [][NextVerifyAny]_vars

\* C13: Pedersen::verify and NIFS::verify_commitments return a boolean for every
\* commitment, the identity included, and every proof, one with u longer than the
\* generators included; neither aborts.
VerifyNeverAborts ==
    /\ ped.pc # "aborted_verify"
    /\ fold.pc # "aborted_verify"

\* Pedersen::verify aborts exactly when cm or r_commit is the identity or u is
\* longer than the generators.
VerifyAbortsExactly ==
    ped.pc \in {"verified", "aborted_verify"} =>
        (ped.pc = "aborted_verify" <=>
            \/ ped.cm = GIdentity
            \/ ped.proof.r_commit = GIdentity
            \/ Len(ped.proof.u) > Len(ped.params.generators))

\* NIFS::verify_commitments aborts when the first commitment it opens, cm_w, is the
\* identity.
VerifyCommitmentsAbortsOnIdentity ==
    (fold.pc \in {"verified", "aborted_verify"} /\ fold.ci1.cm_w = GIdentity)
        => fold.pc = "aborted_verify"

\* ------------------------------------------------- a transcript driven by calls
\* Calls made on one transcript.
MaxCalls == 3

\* The largest n of a get_challenges(n).
MaxDraw == 2

InitTr ==
    /\ ccs = CcsIdle
    /\ ped = PedIdle
    /\ fold = FoldIdle
    /\ vfi = VfiIdle
    /\ vec = VecIdle
    /\ \E config \in 1 .. Len(PoseidonConfigs) :
        tr = [pc |-> "run", ts |-> transcript_new(config), before |-> transcript_new(config),
              calls |-> <<>>, out |-> <<>>]

\* The transcript after a call: the call is appended to the calls made, with the
\* state it was made in.
Called(op, n, ts, out) ==
    [tr EXCEPT !.ts = ts, !.before = tr.ts, !.out = out,
               !.calls = Append(tr.calls, [op |-> op, n |-> n, from |-> tr.ts])]

CanCall == tr.pc = "run" /\ Len(tr.calls) < MaxCalls

TrAbsorb ==
    /\ CanCall
    /\ \E v \in {0, 2} : tr' = Called("absorb", 1, absorb(tr.ts, v), <<>>)
    /\ UNCHANGED <<ccs, ped, fold, vfi, vec>>

TrAbsorbVec ==
    /\ CanCall
    /\ \E v \in {<<>>, <<1, 3>>, <<1, 2, 3>>} :
        tr' = Called("absorb_vec", Len(v), absorb_vec(tr.ts, v), <<>>)
    /\ UNCHANGED <<ccs, ped, fold, vfi, vec>>

\* absorb_point on a point other than the identity.
TrAbsorbPoint ==
    /\ CanCall
    /\ \E p \in {1, 4} : tr' = Called("absorb_point", 2, absorb_point(tr.ts, p), <<>>)
    /\ UNCHANGED <<ccs, ped, fold, vfi, vec>>

TrGetChallenge ==
    /\ CanCall
    /\ \E res \in {get_challenge(tr.ts)} :
        tr' = Called("get_challenge", 1, res.ts, <<res.c>>)
    /\ UNCHANGED <<ccs, ped, fold, vfi, vec>>

TrGetChallenges ==
    /\ CanCall
    /\ \E n \in 0 .. MaxDraw :
        \E res \in {get_challenges(tr.ts, n)} :
            tr' = Called("get_challenges", n, res.ts, res.c)
    /\ UNCHANGED <<ccs, ped, fold, vfi, vec>>

NextTr ==
    \/ TrAbsorb
    \/ TrAbsorbVec
    \/ TrAbsorbPoint
    \/ TrGetChallenge
    \/ TrGetChallenges

SpecTr == InitTr /\ [][NextTr]_vars

Draws == {"get_challenge", "get_challenges"}

LastCall == tr.calls[Len(tr.calls)]

\* C16: after a get_challenge or a get_challenges(n), n = 0 included, the
\* transcript is in a state other than the one before the call, and of two draws
\* in a row the second is computed from a state other than the first's.
DrawAdvances ==
    (tr.calls # <<>> /\ LastCall.op \in Draws) =>
        /\ tr.ts # tr.before
        /\ (Len(tr.calls) >= 2 /\ tr.calls[Len(tr.calls) - 1].op \in Draws) =>
               LastCall.from # tr.calls[Len(tr.calls) - 1].from

\* A get_challenges(0) on a transcript whose last call was a get_challenges(0)
\* returns nothing and leaves the transcript as it was.
EmptyDrawRepeats ==
    (/\ Len(tr.calls) >= 2
     /\ LastCall.op = "get_challenges" /\ LastCall.n = 0
     /\ tr.calls[Len(tr.calls) - 1].op = "get_challenges"
     /\ tr.calls[Len(tr.calls) - 1].n = 0)
        => (tr.ts = tr.before /\ tr.out = <<>>)

\* A draw changes the mode or the position of the sponge unless it is a
\* get_challenges(0) on a sponge that is squeezing.
DrawMovesUnlessEmpty ==
    (tr.calls # <<>> /\ LastCall.op \in Draws /\ tr.ts = tr.before) =>
        (LastCall.op = "get_challenges" /\ LastCall.n = 0
            /\ tr.before.mode = "Squeezing")

\* ------------------------------------------------- vector operations on given vectors
\* The vectors the operations are called on: every length from 0 to 2.
VecInputs == UNION {[1 .. n -> {1, 3}] : n \in 0 .. 2}

VecOps == {"hadamard", "vec_add_vec", "vec_sub_vec"}

FoldOps == {"fold_witness", "fold_committed_instance"}

InitVec ==
    /\ ccs = CcsIdle
    /\ ped = PedIdle
    /\ fold = FoldIdle
    /\ vfi = VfiIdle
    /\ tr = TrIdle
    /\ \E op \in VecOps \cup FoldOps, a \in VecInputs, b \in VecInputs :
        vec = [pc |-> "call", op |-> op, a |-> a, b |-> b, res |-> Aborted]

\* hadamard, vec_add_vec or vec_sub_vec on (a, b); each returns a vector on every
\* input.
CallVecOp ==
    /\ vec.pc = "call" /\ vec.op \in VecOps
    /\ vec' = [vec EXCEPT
                 !.pc = "done",
                 !.res = [ok |-> TRUE,
                          val |-> CASE vec.op = "hadamard" -> hadamard(vec.a, vec.b)
                                    [] vec.op = "vec_add_vec" -> vec_add_vec(vec.a, vec.b)
                                    [] OTHER -> vec_sub_vec(vec.a, vec.b)]]
    /\ UNCHANGED <<ccs, ped, fold, vfi, tr>>

\* fold_witness or fold_committed_instance on two inputs whose e, w and x are a for
\* the first and b for the second, with t as long as a and the challenge 2; each
\* returns a folded value on every input.
CallFoldOp ==
    /\ vec.pc = "call" /\ vec.op \in FoldOps
    /\ LET w1 == [e |-> vec.a, r_e |-> 1, w |-> vec.a, r_w |-> 1]
           w2 == [e |-> vec.b, r_e |-> 1, w |-> vec.b, r_w |-> 1]
           ci1 == [cm_e |-> 1, u |-> 1, cm_w |-> 2, x |-> vec.a]
           ci2 == [cm_e |-> 3, u |-> 1, cm_w |-> 4, x |-> vec.b]
       IN  vec' = [vec EXCEPT
                     !.pc = "done",
                     !.res = [ok |-> TRUE,
                              val |-> IF vec.op = "fold_witness"
                                      THEN fold_witness(w1, w2, vec.a, 2, 1)
                                      ELSE fold_committed_instance(2, 5, ci1, ci2)]]
    /\ UNCHANGED <<ccs, ped, fold, vfi, tr>>

NextVec ==
    \/ CallVecOp
    \/ CallFoldOp

SpecVec == InitVec /\ [][NextVec]_vars

VecMismatch == vec.pc = "done" /\ Len(vec.a) # Len(vec.b)

\* C12: hadamard, vec_add_vec and vec_sub_vec called on vectors of different
\* lengths, and fold_witness and fold_committed_instance called on inputs whose
\* vectors differ in length, abort instead of returning a result.
LengthMismatchAborts ==
    VecMismatch => ~vec.res.ok

\* What the operations do on a mismatch: they return, and the vectors of the result
\* are as long as the shorter input.
LengthMismatchTruncates ==
    VecMismatch =>
        LET short == Min(Len(vec.a), Len(vec.b))
        IN  /\ vec.res.ok
            /\ vec.op \in VecOps => Len(vec.res.val) = short
            /\ vec.op = "fold_witness" =>
                   Len(vec.res.val.e) = short /\ Len(vec.res.val.w) = short
            /\ vec.op = "fold_committed_instance" => Len(vec.res.val.x) = short

====
